---- MODULE Spec2Model ----
(***************************************************************************)
(* Model of src/main.cpp: the 3x3 switch-matrix scanner that renders the   *)
(* scanned field onto a 9-pixel NeoPixel strip.                            *)
(*                                                                         *)
(* The Arduino runtime calls setup() once and then loop() forever.  loop() *)
(* is modelled statement by statement (ColLow, Sample, ColHigh, Show) so   *)
(* that the excitation sequencing is observable; LoopEntry is the runtime  *)
(* calling loop() again.  The value digitalRead returns is an input of the *)
(* environment and is drawn from {LOW, HIGH} at every sample.  The state   *)
(* space is finite, so the passes are explored without a bound.            *)
(***************************************************************************)
EXTENDS Integers, Sequences, FiniteSets

\* ---------------------------------------------------------------- constants
LED_COUNT == 9
FIELD_SIZE == 3
RED_LEVEL == 100

LOW == 0
HIGH == 1

Idx == 0 .. (FIELD_SIZE - 1)
Pixels == 0 .. (LED_COUNT - 1)
Levels == {LOW, HIGH}

\* marker of the bookkeeping variables: nothing recorded yet
NONE == 0 - 1
\* level of a pin that setup() has not driven yet
FLOATING == HIGH + 1

BLACK == <<0, 0, 0>>

VARIABLES
  pc,         \* position: "setup", "idle", "col", "row", "shown"
  pass,       \* which loop() pass runs: "none", "first", "later"
  col,        \* loop variable col of loop()
  row,        \* loop variable row of loop()
  field,      \* field[row][col]
  pixels,     \* the strip's pixel buffer (setPixelColor writes it)
  leds,       \* what the LEDs display (strip.show() transmits the buffer)
  colLevel,   \* level driven on COLS[col]
  serial,     \* lines printed on Serial
  prints,     \* number of printField() calls
  samples,    \* samples[row][col]: digitalRead result of this pass, or NONE
  idx,        \* idx[row][col]: pixel index passed to setPixelColor this pass
  writes,     \* writes[n]: setPixelColor calls of this pass with index n
  shows,      \* strip.show() calls of this pass
  excited,    \* columns asserted in this pass, in order
  lastSamples,\* samples of the preceding pass
  lastField,  \* field at the strip.show() of the preceding pass
  lastLeds    \* leds after the strip.show() of the preceding pass

vars == <<pc, pass, col, row, field, pixels, leds, colLevel, serial, prints,
          samples, idx, writes, shows, excited, lastSamples, lastField, lastLeds>>

Grid(v) == [r \in Idx |-> [c \in Idx |-> v]]

\* ------------------------------------------------------------ pure helpers

\* uint16_t pixel = ...; the arithmetic is truncated to 16 bits
U16(n) == n % 65536
\* uint8_t
U8(n) == n % 256

pixelIndexSwapped(r, c) ==
  IF r % 2 = 1 THEN U16(r * FIELD_SIZE + (FIELD_SIZE - c - 1))
               ELSE U16(r * FIELD_SIZE + c)

pixelIndexAllReversed(r, c) == U16(r * FIELD_SIZE + (FIELD_SIZE - c - 1))

pixelIndexOffByOne(r, c) ==
  IF r % 2 = 0 THEN U16(r * FIELD_SIZE + (FIELD_SIZE - c))
               ELSE U16(r * FIELD_SIZE + c)

\* pixel = row*FIELD_SIZE+col; if (row % 2 == 0) pixel = row*FIELD_SIZE+(FIELD_SIZE-col-1)
pixelIndex(r, c) ==
  IF r % 2 = 0 THEN U16(r * FIELD_SIZE + (FIELD_SIZE - c - 1))
               ELSE U16(r * FIELD_SIZE + c)

senseValueNotInverted(v) == v

\* !digitalRead(ROWS[row]) stored in a uint8_t
senseValue(v) == IF v = 0 THEN 1 ELSE 0

cellColorGreen(f) == <<0, U8(RED_LEVEL * f), 0>>

\* the colour arguments 100 * field[row][col], 0, 0 (uint8_t r, g, b)
cellColor(f) == <<U8(RED_LEVEL * f), 0, 0>>

\* Adafruit_NeoPixel::setPixelColor(n, r, g, b): ignored when n >= numLEDs;
\* setBrightness(255) leaves the colours unscaled
setPixelColor(p, n, c) == IF n < LED_COUNT THEN [p EXCEPT ![n] = c] ELSE p

storeCellLatched(f, r, c, v) == [f EXCEPT ![r][c] = IF f[r][c] = 1 THEN 1 ELSE v]

\* field[row][col] = v
storeCell(f, r, c, v) == [f EXCEPT ![r][c] = v]

renderCellIfSet(p, r, c, f) ==
  IF f # 0 THEN setPixelColor(p, pixelIndex(r, c), cellColor(f)) ELSE p

\* strip.setPixelColor(pixel, 100 * field[row][col], 0, 0)
renderCell(p, r, c, f) == setPixelColor(p, pixelIndex(r, c), cellColor(f))

\* the lines printField() prints: one line of digits per row
printedLines(f) == [r \in 1 .. FIELD_SIZE |-> [c \in 1 .. FIELD_SIZE |-> f[r - 1][c - 1]]]

\* the field printField() leaves: every cell printed is set to 0
printField(f) == [r \in Idx |-> [c \in Idx |-> 0]]

ActiveCols == {c \in Idx : colLevel[c] = LOW}

\* ----------------------------------------------------------------- actions

Init ==
  /\ pc = "setup"
  /\ pass = "none"
  /\ col = 0
  /\ row = 0
  /\ field = Grid(0)
  /\ pixels = [n \in Pixels |-> BLACK]
  /\ leds = [n \in Pixels |-> BLACK]
  /\ colLevel = [c \in Idx |-> FLOATING]
  /\ serial = <<>>
  /\ prints = 0
  /\ samples = Grid(NONE)
  /\ idx = Grid(NONE)
  /\ writes = [n \in Pixels |-> 0]
  /\ shows = 0
  /\ excited = <<>>
  /\ lastSamples = Grid(NONE)
  /\ lastField = Grid(0)
  /\ lastLeds = [n \in Pixels |-> BLACK]

\* setup(): strip.begin(); strip.show(); pinMode...; printField(); all COLS high
Setup ==
  /\ pc = "setup"
  /\ leds' = pixels
  /\ serial' = serial \o printedLines(field)
  /\ field' = printField(field)
  /\ prints' = prints + 1
  /\ colLevel' = [c \in Idx |-> HIGH]
  /\ pc' = "idle"
  /\ UNCHANGED <<pass, col, row, pixels, samples, idx, writes, shows, excited,
                 lastSamples, lastField, lastLeds>>

\* the runtime calls loop(): size_t col = 0
LoopEntry ==
  /\ pc \in {"idle", "shown"}
  /\ pass' = IF pass = "none" THEN "first" ELSE "later"
  /\ col' = 0
  /\ pc' = "col"
  /\ lastSamples' = samples
  /\ lastField' = field
  /\ lastLeds' = leds
  /\ samples' = Grid(NONE)
  /\ idx' = Grid(NONE)
  /\ writes' = [n \in Pixels |-> 0]
  /\ shows' = 0
  /\ excited' = <<>>
  /\ UNCHANGED <<row, field, pixels, leds, colLevel, serial, prints>>

\* col < FIELD_SIZE: digitalWrite(COLS[col], false); size_t row = 0
ColLow ==
  /\ pc = "col"
  /\ col < FIELD_SIZE
  /\ colLevel' = [colLevel EXCEPT ![col] = LOW]
  /\ excited' = Append(excited, col)
  /\ row' = 0
  /\ pc' = "row"
  /\ UNCHANGED <<pass, col, field, pixels, leds, serial, prints, samples, idx,
                 writes, shows, lastSamples, lastField, lastLeds>>

SampleRenderStale(v) ==
  /\ pc = "row"
  /\ row < FIELD_SIZE
  /\ field' = storeCell(field, row, col, senseValue(v))
  /\ pixels' = renderCell(pixels, row, col, field[row][col])
  /\ samples' = [samples EXCEPT ![row][col] = v]
  /\ idx' = [idx EXCEPT ![row][col] = pixelIndex(row, col)]
  /\ writes' = [n \in Pixels |-> IF n = pixelIndex(row, col) THEN writes[n] + 1 ELSE writes[n]]
  /\ row' = row + 1
  /\ UNCHANGED <<pc, pass, col, leds, colLevel, serial, prints, shows, excited,
                 lastSamples, lastField, lastLeds>>

\* row < FIELD_SIZE: the body of the inner loop, digitalRead returning v
Sample(v) ==
  /\ pc = "row"
  /\ row < FIELD_SIZE
  /\ field' = storeCell(field, row, col, senseValue(v))
  /\ pixels' = renderCell(pixels, row, col, field'[row][col])
  /\ samples' = [samples EXCEPT ![row][col] = v]
  /\ idx' = [idx EXCEPT ![row][col] = pixelIndex(row, col)]
  /\ writes' = [n \in Pixels |-> IF n = pixelIndex(row, col) THEN writes[n] + 1 ELSE writes[n]]
  /\ row' = row + 1
  /\ UNCHANGED <<pc, pass, col, leds, colLevel, serial, prints, shows, excited,
                 lastSamples, lastField, lastLeds>>

ColHighMissing ==
  /\ pc = "row"
  /\ row = FIELD_SIZE
  /\ col' = col + 1
  /\ pc' = "col"
  /\ UNCHANGED <<pass, row, field, pixels, leds, colLevel, serial, prints, samples,
                 idx, writes, shows, excited, lastSamples, lastField, lastLeds>>

\* row = FIELD_SIZE: digitalWrite(COLS[col], true); col++
ColHigh ==
  /\ pc = "row"
  /\ row = FIELD_SIZE
  /\ colLevel' = [colLevel EXCEPT ![col] = HIGH]
  /\ col' = col + 1
  /\ pc' = "col"
  /\ UNCHANGED <<pass, row, field, pixels, leds, serial, prints, samples, idx,
                 writes, shows, excited, lastSamples, lastField, lastLeds>>

ShowAndPrint ==
  /\ pc = "col"
  /\ col = FIELD_SIZE
  /\ leds' = pixels
  /\ shows' = shows + 1
  /\ serial' = serial \o printedLines(field)
  /\ field' = printField(field)
  /\ prints' = prints + 1
  /\ pc' = "shown"
  /\ UNCHANGED <<pass, col, row, pixels, colLevel, samples, idx, writes,
                 excited, lastSamples, lastField, lastLeds>>

\* col = FIELD_SIZE: strip.show(); loop() returns
Show ==
  /\ pc = "col"
  /\ col = FIELD_SIZE
  /\ leds' = pixels
  /\ shows' = shows + 1
  /\ pc' = "shown"
  /\ UNCHANGED <<pass, col, row, field, pixels, colLevel, serial, prints, samples,
                 idx, writes, excited, lastSamples, lastField, lastLeds>>

Next ==
  \/ Setup
  \/ LoopEntry
  \/ ColLow
  \/ \E v \in Levels : Sample(v)
  \/ ColHigh
  \/ Show

Spec == Init /\ [][Next]_vars

\* ------------------------------------------------------------------ claims

Cells == Idx \X Idx
Sampled(r, c) == samples[r][c] # NONE
PassDone == pc = "shown"
PassStart == pc = "col" /\ col = 0 /\ excited = <<>>
LIT == <<RED_LEVEL, 0, 0>>
RowIdx(r) == <<idx[r][0], idx[r][1], idx[r][2]>>
PressedCells == {rc \in Cells : samples[rc[1]][rc[2]] = LOW}

\* C1 (as stated): for every cell of an even row the index passed to
\* setPixelColor is row*FIELD_SIZE + col, so row 0 maps to [0,1,2] and row 2
\* to [6,7,8].
C1_EvenRowsLeftToRight ==
  /\ \A r \in Idx, c \in Idx :
       (r % 2 = 0 /\ idx[r][c] # NONE) => idx[r][c] = r * FIELD_SIZE + c
  /\ PassDone => (RowIdx(0) = <<0, 1, 2>> /\ RowIdx(2) = <<6, 7, 8>>)

\* C1 (amended): for every cell of an even row the index passed to
\* setPixelColor is row*FIELD_SIZE + (FIELD_SIZE - 1 - col) (right-to-left),
\* so row 0 maps to [2,1,0] and row 2 to [8,7,6] for col = 0,1,2.
C1_EvenRowsRightToLeft ==
  /\ \A r \in Idx, c \in Idx :
       (r % 2 = 0 /\ idx[r][c] # NONE) => idx[r][c] = r * FIELD_SIZE + (FIELD_SIZE - 1 - c)
  /\ PassDone => (RowIdx(0) = <<2, 1, 0>> /\ RowIdx(2) = <<8, 7, 6>>)

C1_Witness == PassDone /\ idx[0][0] = 2 /\ idx[2][2] = 6

\* C2 (as stated): for every cell of an odd row the index passed to
\* setPixelColor is row*FIELD_SIZE + (FIELD_SIZE - 1 - col), so row 1 maps to
\* [5,4,3].
C2_OddRowsRightToLeft ==
  /\ \A r \in Idx, c \in Idx :
       (r % 2 = 1 /\ idx[r][c] # NONE) => idx[r][c] = r * FIELD_SIZE + (FIELD_SIZE - 1 - c)
  /\ PassDone => RowIdx(1) = <<5, 4, 3>>

\* C2 (amended): for every cell of an odd row the index passed to
\* setPixelColor is row*FIELD_SIZE + col (left-to-right), so row 1 maps to
\* [3,4,5] for col = 0,1,2.
C2_OddRowsLeftToRight ==
  /\ \A r \in Idx, c \in Idx :
       (r % 2 = 1 /\ idx[r][c] # NONE) => idx[r][c] = r * FIELD_SIZE + c
  /\ PassDone => RowIdx(1) = <<3, 4, 5>>

C2_Witness == PassDone /\ idx[1][0] = 3 /\ idx[1][2] = 5

\* C3: the (row, col) -> pixel index mapping of loop() is a bijection from
\* the 9 cells onto 0..8: every index passed is in [0, LED_COUNT), two
\* distinct cells never get the same index, and a full pass uses every index.
C3_MappingBijective ==
  LET done == {rc \in Cells : Sampled(rc[1], rc[2])}
      used == {idx[rc[1]][rc[2]] : rc \in done}
  IN /\ used \subseteq Pixels
     /\ Cardinality(used) = Cardinality(done)
     /\ PassDone => (done = Cells /\ used = Pixels)

C3_Witness == PassDone /\ \A rc \in Cells : Sampled(rc[1], rc[2])

\* C4: if every sample of a pass read high (not pressed), then at the
\* strip.show() ending the pass every field cell is 0 and all 9 pixels are
\* (0,0,0), whatever earlier passes left behind.
C4_AllReleasedAllBlack ==
  (PassDone /\ \A rc \in Cells : samples[rc[1]][rc[2]] = HIGH)
    => /\ field = Grid(0)
       /\ \A n \in Pixels : pixels[n] = BLACK /\ leds[n] = BLACK

C4_Witness ==
  /\ PassDone
  /\ \A rc \in Cells : samples[rc[1]][rc[2]] = HIGH
  /\ lastField = Grid(1)
  /\ \A n \in Pixels : lastLeds[n] = LIT

\* C5: if exactly one sample of a pass read low, at step (c, r), then at the
\* strip.show() ending the pass field[r][c] is the only cell that is 1 and the
\* pixel at the index loop() computed for (r, c) is the only one lit (red 100).
C5_SinglePress ==
  \A rc \in Cells :
    (PassDone /\ PressedCells = {rc})
      => /\ \A xy \in Cells : field[xy[1]][xy[2]] = (IF xy = rc THEN 1 ELSE 0)
         /\ \A n \in Pixels :
              /\ leds[n] = (IF n = idx[rc[1]][rc[2]] THEN LIT ELSE BLACK)
              /\ pixels[n] = leds[n]

C5_Witness ==
  /\ PassDone
  /\ PressedCells = {<<1, 2>>}
  /\ pass = "later"
  /\ lastField[0][0] = 1
  /\ leds[5] = LIT

\* C6: if two consecutive passes see the same 9 samples, the field and the 9
\* pixel colours at the second strip.show() equal those at the first; cell by
\* cell, an unchanged sample gives an unchanged cell and an unchanged pixel,
\* and the field and the colours at the show are a function of the pass's own
\* samples alone.
C6_Idempotent ==
  (PassDone /\ pass = "later")
    => /\ \A rc \in Cells :
            samples[rc[1]][rc[2]] = lastSamples[rc[1]][rc[2]]
              => /\ field[rc[1]][rc[2]] = lastField[rc[1]][rc[2]]
                 /\ leds[idx[rc[1]][rc[2]]] = lastLeds[idx[rc[1]][rc[2]]]
       /\ samples = lastSamples => (field = lastField /\ leds = lastLeds)
       /\ \A rc \in Cells :
            /\ field[rc[1]][rc[2]] = (IF samples[rc[1]][rc[2]] = LOW THEN 1 ELSE 0)
            /\ leds[idx[rc[1]][rc[2]]] = (IF samples[rc[1]][rc[2]] = LOW THEN LIT ELSE BLACK)

C6_Witness ==
  /\ PassDone
  /\ pass = "later"
  /\ samples = lastSamples
  /\ PressedCells = {<<0, 1>>, <<2, 2>>}

\* C7: sense lines are read inverted: the cell stored for a sample is 1
\* exactly when digitalRead returned low and 0 exactly when it returned high;
\* every field cell is always 0 or 1.
C7_InvertedPolarity ==
  /\ \A rc \in Cells :
       Sampled(rc[1], rc[2])
         => /\ field[rc[1]][rc[2]] = 1 <=> samples[rc[1]][rc[2]] = LOW
            /\ field[rc[1]][rc[2]] = 0 <=> samples[rc[1]][rc[2]] = HIGH
  /\ \A rc \in Cells : field[rc[1]][rc[2]] \in {0, 1}

C7_Witness ==
  /\ pc = "row"
  /\ samples[0][1] = LOW /\ field[0][1] = 1
  /\ samples[1][1] = HIGH /\ field[1][1] = 0
  /\ lastSamples[1][1] = LOW

\* C8: in each pass every pixel is written exactly once and strip.show() is
\* called exactly once, after all 9 writes; at that show the pixel at a
\* cell's mapped index is (100,0,0) if the cell is true and (0,0,0) if not.
C8_RenderAndFlush ==
  /\ shows <= 1
  /\ \A n \in Pixels : writes[n] <= 1
  /\ shows = 1 => \A n \in Pixels : writes[n] = 1
  /\ PassDone
       => /\ shows = 1
          /\ \A rc \in Cells :
               /\ leds[idx[rc[1]][rc[2]]] = (IF field[rc[1]][rc[2]] = 1 THEN LIT ELSE BLACK)
               /\ leds[idx[rc[1]][rc[2]]][2] = 0
               /\ leds[idx[rc[1]][rc[2]]][3] = 0

C8_Witness ==
  /\ PassDone
  /\ field[0][0] = 1 /\ leds[2] = LIT
  /\ field[1][0] = 0 /\ leds[3] = BLACK

\* C9 (as stated): the field is printed and cleared in every scan cycle
\* before the next scan begins, so at the start of every loop() pass every
\* cell of field is 0.
C9_FieldClearedEveryCycle ==
  /\ PassStart => field = Grid(0)
  /\ (PassStart /\ pass = "later") => prints >= 2

\* C9 (amended): printField() runs exactly once, in setup(), before the
\* first scan; the first pass starts with an all-zero field, and every later
\* pass starts with each cell still holding the value stored for the
\* preceding pass's sample (loop() never prints or resets the field).
C9_FieldClearedOnlyInSetup ==
  /\ pc # "setup" => (prints = 1 /\ serial = <<<<0, 0, 0>>, <<0, 0, 0>>, <<0, 0, 0>>>>)
  /\ (PassStart /\ pass = "first") => field = Grid(0)
  /\ (PassStart /\ pass = "later")
       => \A rc \in Cells : field[rc[1]][rc[2]] = senseValue(lastSamples[rc[1]][rc[2]])

C9_Witness == PassStart /\ pass = "later" /\ field[1][1] = 1 /\ field[0][2] = 1

\* C10: after setup() all columns are high; in every pass the columns are
\* asserted in the order 0, 1, 2, each before its rows are sampled and
\* released before the next is asserted; at most one column is active, at
\* every sample the only active column is the one being written, and at
\* every strip.show() all columns are inactive.
C10_ExcitationSequencing ==
  /\ pc # "setup" => \A c \in Idx : colLevel[c] \in Levels
  /\ pc \in {"idle", "col", "shown"} => ActiveCols = {}
  /\ Cardinality(ActiveCols) <= 1
  /\ pc = "row" => ActiveCols = {col}
  /\ excited = [i \in 1 .. Len(excited) |-> i - 1]
  /\ Len(excited) <= FIELD_SIZE
  /\ PassDone => excited = <<0, 1, 2>>
  /\ \A rc \in Cells :
       Sampled(rc[1], rc[2]) => \E i \in 1 .. Len(excited) : excited[i] = rc[2]

C10_Witness ==
  /\ pc = "row" /\ col = 2 /\ row = 1
  /\ pass = "later"
  /\ ActiveCols = {2}
  /\ excited = <<0, 1, 2>>

====
